---- MODULE Spec2Model ----
\* State-machine model of the proposal pipeline of ai-proposal-agent:
\* the completion client (LLMClient), JSON extraction and repair
\* (MainProposalChain._ensure_json) and the four chains built on them
\* (SummarizationChain, QualityAuditChain, MainProposalChain.generate,
\* MainProposalChain.regenerate_section).
\*
\* A Python str is modelled as a sequence of tokens (a "text"): the backtick,
\* the word json, the newline, the blank, a non-JSON word, and one token per
\* JSON document the completion capability may produce.  A Python dict is an
\* ordered sequence of <<key, value>> pairs (dicts keep insertion order).
\*
\* Three further specifications share the module: SpecNormalize for the
\* section normalization of the app (_normalize_section), SpecClean for the
\* text cleaning (clean_transcript, LLMClient._normalize) and SpecSession
\* for the session of the app, one action per run of its script.  There a
\* str is a sequence of characters, with a few words kept as one token.
EXTENDS Integers, Sequences, FiniteSets, TLC

(***************************************************************************)
(* Bounds of the model                                                     *)
(***************************************************************************)
\* retries passed to a direct LLMClient.generate call range over 0..MaxRetries
MaxRetries == 4
\* backoff passed to a direct LLMClient.generate call ranges over 1..MaxBackoff
MaxBackoff == 2

(***************************************************************************)
(* Program constants                                                       *)
(***************************************************************************)
\* default of the retries parameter of LLMClient.generate
DefaultRetries == 3
\* default of the backoff parameter of LLMClient.generate (seconds)
DefaultBackoff == 1

sections_order ==
  << "Cover Page", "Executive Summary", "Problem & Opportunity",
     "Proposed Solution", "Scope of Work & Deliverables",
     "Timeline & Milestones", "Pricing & Payment Terms",
     "ROI / Impact / Metrics", "Risks & Mitigations", "Terms & Conditions",
     "Next Steps & CTA", "Appendix" >>

Canonical == { sections_order[n] : n \in 1..Len(sections_order) }

\* the section names MainProposalChain.__init__ registers a template for
RegisteredNames ==
  { "Executive Summary", "Problem & Opportunity",
    "Scope of Work & Deliverables", "Timeline & Milestones",
    "Pricing & Payment Terms", "Terms & Conditions" }

InsightKeys ==
  << "pain_points", "commitments", "timeline_hints", "budget_cues", "quotes" >>

(***************************************************************************)
(* Python str operations on texts                                          *)
(***************************************************************************)
\* one backtick character
TICK == "tick"
NL == "\n"
SP == " "
Whitespace == { NL, SP }

SetMin(S) == CHOOSE m \in S : \A n \in S : m <= n
SetMax(S) == CHOOSE m \in S : \A n \in S : n <= m

\* s.strip(chars): drop the leading and trailing tokens that are in chars
StripSet(s, chars) ==
  LET keep == { n \in 1..Len(s) : s[n] \notin chars }
  IN  IF keep = {} THEN << >> ELSE SubSeq(s, SetMin(keep), SetMax(keep))

\* s.strip()
Strip(s) == StripSet(s, Whitespace)

\* s.strip of the backtick
StripTicks(s) == StripSet(s, { TICK })

\* s.startswith of three backticks
StartsWithFence(s) ==
  Len(s) >= 3 /\ s[1] = TICK /\ s[2] = TICK /\ s[3] = TICK

\* s.replace("json\n", ""): every occurrence, scanning left to right
RECURSIVE ReplaceFrom(_, _)
ReplaceFrom(s, n) ==
  IF n > Len(s) THEN << >>
  ELSE IF n < Len(s) /\ s[n] = "json" /\ s[n + 1] = NL
       THEN ReplaceFrom(s, n + 2)
       ELSE << s[n] >> \o ReplaceFrom(s, n + 1)

RemoveJsonHint(s) == ReplaceFrom(s, 1)

(***************************************************************************)
(* Python values                                                           *)
(***************************************************************************)
Str(t) == [type |-> "str", v |-> t]
Int_(n) == [type |-> "int", v |-> n]
List(s) == [type |-> "list", v |-> s]
Dict(pairs) == [type |-> "dict", v |-> pairs]
NoneValue == [type |-> "none", v |-> 0]

IsDict(x) == x.type = "dict"
IsList(x) == x.type = "list"

\* the keys of a dict, in insertion order
Keys(d) == [n \in 1..Len(d.v) |-> d.v[n][1]]
KeySet(d) == { d.v[n][1] : n \in 1..Len(d.v) }
Has(d, k) == k \in KeySet(d)

\* d.get(k): None when the key is missing
Get(d, k) ==
  IF Has(d, k)
  THEN d.v[CHOOSE n \in 1..Len(d.v) : d.v[n][1] = k][2]
  ELSE NoneValue

\* d[k] = x: replaces in place, or appends a new key at the end
Put(d, k, x) ==
  IF Has(d, k)
  THEN Dict([n \in 1..Len(d.v) |-> IF d.v[n][1] = k THEN << k, x >> ELSE d.v[n]])
  ELSE Dict(Append(d.v, << k, x >>))

\* bool(x) of Python
Truthy(x) ==
  CASE x.type = "none" -> FALSE
    [] x.type = "int" -> x.v # 0
    [] OTHER -> Len(x.v) > 0

(***************************************************************************)
(* JSON documents of the completion capability and json.loads              *)
(***************************************************************************)
\* the text of one section body, as a completion returns it for a section
SectionBody(name) == << "body", name >>

FullSections ==
  Dict([n \in 1..Len(sections_order) |->
          << sections_order[n], Str(SectionBody(sections_order[n])) >>])

\* one token per JSON document: the token stands for the document's text
DocNames ==
  { "full", "partial", "foreign", "headed", "listed", "empty_sections",
    "no_sections", "number", "list",
    "insights_full", "insights_some", "insights_nonlist",
    "audit_ok", "audit_partial", "audit_range" }

\* the value json.loads gives for the document a token stands for
Doc(name) ==
  CASE name = "full" ->
         Dict(<< << "title", Str(<< "T" >>) >>,
                 << "metadata", Dict(<< >>) >>,
                 << "sections", FullSections >>,
                 << "markdown_full", Str(<< "X" >>) >> >>)
    [] name = "partial" ->
         Dict(<< << "title", Str(<< "T" >>) >>,
                 << "metadata", Dict(<< >>) >>,
                 << "sections",
                    Dict(<< << "Executive Summary", Str(<< "X" >>) >> >>) >>,
                 << "markdown_full", Str(<< "X" >>) >> >>)
    [] name = "foreign" ->
         Dict(<< << "title", Str(<< "T" >>) >>,
                 << "sections",
                    Dict(<< << "Appendix", Str(<< "X" >>) >>,
                            << "Budget", Str(<< "Y" >>) >>,
                            << "Cover Page", Str(<< "Z" >>) >> >>) >> >>)
    [] name = "headed" ->
         Dict(<< << "title", Str(<< "T" >>) >>,
                 << "sections",
                    Dict(<< << "Executive Summary",
                               Str(<< "#", " ", "Executive Summary", "\n", "X" >>) >>,
                            << "Cover Page",
                               Str(<< "#", "#", " ", "Intro", "\n", "X" >>) >> >>) >> >>)
    [] name = "listed" ->
         Dict(<< << "title", Str(<< "T" >>) >>,
                 << "sections", List(<< Str(<< "A" >>) >>) >> >>)
    [] name = "empty_sections" ->
         Dict(<< << "title", Str(<< "T" >>) >>,
                 << "metadata", Dict(<< >>) >>,
                 << "sections", Dict(<< >>) >>,
                 << "markdown_full", Str(<< >>) >> >>)
    [] name = "no_sections" -> Dict(<< << "a", Int_(1) >> >>)
    [] name = "number" -> Int_(7)
    [] name = "list" -> List(<< Str(<< "A" >>) >>)
    [] name = "insights_full" ->
         Dict(<< << "pain_points", List(<< Str(<< "A" >>) >>) >>,
                 << "commitments", List(<< >>) >>,
                 << "timeline_hints", List(<< >>) >>,
                 << "budget_cues", List(<< >>) >>,
                 << "quotes", List(<< >>) >> >>)
    [] name = "insights_some" ->
         Dict(<< << "quotes", List(<< Str(<< "Q" >>) >>) >>,
                 << "pain_points", List(<< Str(<< "A" >>) >>) >> >>)
    [] name = "insights_nonlist" ->
         Dict(<< << "pain_points", Str(<< "A" >>) >>,
                 << "budget_cues", Int_(5000) >> >>)
    [] name = "audit_ok" ->
         Dict(<< << "grade", Int_(90) >>,
                 << "summary", Str(<< "Good" >>) >>,
                 << "suggestions", List(<< Str(<< "S" >>) >>) >>,
                 << "apply_notes", List(<< >>) >> >>)
    [] name = "audit_partial" -> Dict(<< << "grade", Int_(90) >> >>)
    [] name = "audit_range" ->
         Dict(<< << "grade", Int_(150) >>,
                 << "summary", Str(<< "Good" >>) >>,
                 << "suggestions", List(<< >>) >>,
                 << "apply_notes", List(<< >>) >> >>)

\* json.loads(s): surrounding whitespace is ignored; the text must be exactly
\* one JSON document
CanLoad(s) == Len(Strip(s)) = 1 /\ Strip(s)[1] \in DocNames
JsonLoads(s) == Doc(Strip(s)[1])

(***************************************************************************)
(* MainProposalChain._ensure_json, the parts without a completion call     *)
(***************************************************************************)
\* Cleaned without the removal of the json hint
CleanedKeepsHint(text) ==
  LET cleaned == Strip(text)
  IN  IF StartsWithFence(cleaned) THEN Strip(StripTicks(cleaned)) ELSE cleaned

\* cleaned = (text or "").strip(), and the fence stripping when it starts
\* with a fence
Cleaned(text) ==
  LET cleaned == Strip(text)
  IN  IF StartsWithFence(cleaned)
      THEN Strip(RemoveJsonHint(StripTicks(cleaned)))
      ELSE cleaned

\* the try block: an empty text raises, otherwise json.loads decides
DirectParses(text) == Cleaned(text) # << >> /\ CanLoad(Cleaned(text))

\* the last line: json.loads(fixed_clean), with no emptiness test
FixedParses(fixed) == CanLoad(Cleaned(fixed))

(***************************************************************************)
(* The chains' handling of a completion text                               *)
(***************************************************************************)
RECURSIVE SetDefaults(_, _)
\* for k in [...]: data.setdefault(k, []), from the n-th key on
SetDefaults(data, n) ==
  IF n > Len(InsightKeys) THEN data
  ELSE SetDefaults(IF Has(data, InsightKeys[n]) THEN data
                   ELSE Put(data, InsightKeys[n], List(<< >>)),
                   n + 1)

EmptyInsights ==
  Dict([n \in 1..Len(InsightKeys) |-> << InsightKeys[n], List(<< >>) >>])

\* SummarizationChain.run after the completion returned out: a text that
\* does not parse, or parses to a value without setdefault, gives the default
SummarizeResult(out) ==
  IF CanLoad(out) /\ IsDict(JsonLoads(out))
  THEN SetDefaults(JsonLoads(out), 1)
  ELSE EmptyInsights

DefaultAudit ==
  Dict(<< << "grade", Int_(70) >>,
          << "summary", Str(<< "Basic check complete." >>) >>,
          << "suggestions", List(<< >>) >>,
          << "apply_notes", List(<< >>) >> >>)

\* QualityAuditChain.run after the completion returned out
AuditResult(out) == IF CanLoad(out) THEN JsonLoads(out) ELSE DefaultAudit

\* HasSections accepting only a mapping that holds every canonical name
HasSectionsAllCanonical(data) ==
  /\ IsDict(data)
  /\ IsDict(Get(data, "sections"))
  /\ Canonical \subseteq KeySet(Get(data, "sections"))

\* MainProposalChain.generate: the test that accepts the extracted data
HasSections(data) == IsDict(data) /\ Truthy(Get(data, "sections"))

(***************************************************************************)
(* Inputs of the model: templates, contexts, completion texts              *)
(***************************************************************************)
\* the placeholders a prompt file may hold; the context keys a caller passes
MainTemplates == { { "goals" } }
Contexts == { { }, { "goals" }, { "project_title", "brand_tone", "goals" } }

\* the placeholders of the registered section templates
SectionPromptChoices ==
  { [n \in RegisteredNames |-> { "goals" }],
    [n \in RegisteredNames |->
       IF n = "Timeline & Milestones" THEN { "deadline" } ELSE { "brand_tone" }] }

Fence == << TICK, TICK, TICK >>

\* texts handed to _ensure_json directly: every way of wrapping a body
RawPrefixes ==
  { << >>, << SP >>, Fence, Fence \o << NL >>, Fence \o << "json", NL >>,
    << NL >> \o Fence \o << "json", NL >>, Fence \o << "json" >>,
    Fence \o << "json", SP >>, << TICK, TICK >>, Fence \o << "x", NL >> }
RawBodies ==
  { << >>, << "no_sections" >>, << "full" >>, << "x" >>,
    << "no_sections", "x" >>, << "no_sections", NL, "number" >> }
RawSuffixes == { << >>, Fence, << NL >> \o Fence, << NL >> \o Fence \o << NL >>, << NL >> }
RawTexts ==
  { pre \o body \o post : pre \in RawPrefixes, body \in RawBodies, post \in RawSuffixes }

\* texts the completion capability may return, per call site
MainTexts ==
  { << "x" >>, << "full" >>, Fence \o << "json", NL, "full", NL >> \o Fence,
    << "partial" >>, << "foreign" >>, << "headed" >>, << "empty_sections" >>,
    << "no_sections" >>, << "number" >> }
FixTexts ==
  { << "x" >>, << "partial" >>, Fence \o << "json", NL, "full", NL >> \o Fence,
    << "empty_sections" >>, << >> }
SummaryTexts ==
  { << "x" >>, << >>, << "insights_full" >>, << "insights_some" >>,
    << "insights_nonlist" >>, << "number" >>, << "list" >>,
    Fence \o << "json", NL, "insights_full", NL >> \o Fence }
AuditTexts ==
  { << "x" >>, << >>, << "audit_ok" >>, << "audit_partial" >>,
    << "audit_range" >>, << "number" >>, << "list" >> }
DirectTexts == { << "x" >>, << >> }

Responses(site, name) ==
  CASE site = "main" -> MainTexts
    [] site = "fix" -> FixTexts
    [] site = "summarize" -> SummaryTexts
    [] site = "audit" -> AuditTexts
    [] site = "section" -> { SectionBody(name) }
    [] OTHER -> DirectTexts

(***************************************************************************)
(* State                                                                   *)
(***************************************************************************)
VARIABLES
  main_template,    \* MainProposalChain.main_template: its placeholders
  section_prompts,  \* MainProposalChain.section_prompts: placeholders per name
  req,              \* the running operation and its arguments
  pc,               \* "idle", "llm" (inside LLMClient.generate) or "done"
  llm,              \* frame of the running LLMClient.generate call
  frame,            \* locals of generate and _ensure_json
  trace,            \* template renders and completion calls, in order
  result,           \* what the operation returned or raised
  norm,             \* a title, a body and the results of _normalize_section
  clean,            \* a text and the results of clean_transcript and _normalize
  session           \* st.session_state.proposal, the saved proposals, the clock

pipeline == << main_template, section_prompts, req, pc, llm, frame, trace, result >>
vars == << pipeline, norm, clean, session >>

Unset == [state |-> "unset", text |-> << >>]
Returned(t) == [state |-> "returned", text |-> t]
Failed == [state |-> "failed", text |-> << >>]

NoReq == [op |-> "idle", ctx |-> { }, name |-> "", text |-> << >>]
Req(o, c, n, t) == [op |-> o, ctx |-> c, name |-> n, text |-> t]

NewCall(site, retries, backoff) ==
  [site |-> site, i |-> 0, retries |-> retries, backoff |-> backoff,
   invocations |-> 0, sleeps |-> << >>, resp |-> Unset]
NoCall == NewCall("none", 0, 0)

NoFrame == [out |-> Unset, fixed |-> Unset, built |-> Dict(<< >>), idx |-> 0]

NoResult == [status |-> "none", value |-> NoneValue]
Return(x) == [status |-> "returned", value |-> x]
\* RuntimeError: the completion failed after its retries (CompletionFailed);
\* KeyError: a placeholder without context entry (MissingContextKey);
\* JSONDecodeError: the repaired text does not parse (UnrecoverableJson)
Raise(e) == [status |-> "raised", value |-> [type |-> "error", v |-> e]]

\* trace entries: a template render, the start of a completion call, and
\* the outcome of a completion call (the text it returned, or its failure)
Ev(e, w) == [ev |-> e, what |-> w, text |-> << >>]
Outcome(w, r) == [ev |-> r.state, what |-> w, text |-> r.text]

\* no section text is being normalized
NoNorm == [title |-> << >>, body |-> << >>, outs |-> << >>]

\* no text is being cleaned
NoClean == [text |-> << >>, outs |-> << >>, prompts |-> << >>]

\* the chains at rest, as MainProposalChain.__init__ leaves them
PipelineIdle ==
  /\ main_template = { "goals" }
  /\ section_prompts = [n \in RegisteredNames |-> { "goals" }]
  /\ req = NoReq
  /\ pc = "idle"
  /\ llm = NoCall
  /\ frame = NoFrame
  /\ trace = << >>
  /\ result = NoResult

\* what the last run of the script did: the button, whether its call
\* completed, and the audit the call returned or the name of the section
\* regenerated
NoRun == [action |-> "none", ok |-> FALSE, value |-> NoneValue]

\* st.session_state.proposal as the first run of the script creates it,
\* with no proposal saved and no "qa" key; runs counts the runs of the
\* script, saves the calls of save_proposal_json, last is the last run
NewSession ==
  [sections |-> Dict(<< >>), markdown_full |-> << >>, history |-> << >>,
   proposal_id |-> NoneValue, qa |-> NoneValue, store |-> << >>, clock |-> 0,
   runs |-> 0, saves |-> 0, last |-> NoRun]

Init ==
  /\ norm = NoNorm
  /\ clean = NoClean
  /\ session = NewSession
  /\ main_template \in MainTemplates
  /\ section_prompts \in SectionPromptChoices
  /\ req = NoReq
  /\ pc = "idle"
  /\ llm = NoCall
  /\ frame = NoFrame
  /\ trace = << >>
  /\ result = NoResult

Goto(p, l, f, t, r) ==
  /\ pc' = p
  /\ llm' = l
  /\ frame' = f
  /\ trace' = t
  /\ result' = r
  /\ UNCHANGED << main_template, section_prompts, norm, clean, session >>

(***************************************************************************)
(* Prompt rendering                                                        *)
(***************************************************************************)
\* template.format(**context) raises KeyError unless every placeholder has
\* a context entry
Renders(placeholders, context) == placeholders \subseteq context

\* regenerate_section: the registered template, or the generic one, whose
\* only placeholder is brand_tone
PromptVars(name) ==
  IF name \in RegisteredNames THEN section_prompts[name] ELSE { "brand_tone" }

(***************************************************************************)
(* MainProposalChain.generate: the per-section fallback                    *)
(***************************************************************************)
\* inputs.get(k): the value of a context entry, None when it is missing
ContextValue(k) == IF k \in req.ctx THEN Str(<< "value", k >>) ELSE NoneValue

MetadataKeys == << "company_name", "client_name", "brand_tone", "language" >>

\* the document the fallback returns; markdown_full joins one block per
\* built section, kept here as the list of <<heading, body>> blocks
FallbackDocument(built) ==
  Dict(<< << "title",
             IF "project_title" \in req.ctx THEN ContextValue("project_title")
             ELSE Str(<< "Proposal" >>) >>,
          << "metadata",
             Dict([n \in 1..Len(MetadataKeys) |->
                     << MetadataKeys[n], ContextValue(MetadataKeys[n]) >>]) >>,
          << "sections", built >>,
          << "markdown_full",
             List([n \in 1..Len(built.v) |->
                     List(<< Str(<< "# ", built.v[n][1] >>), built.v[n][2] >>)]) >> >>)

RECURSIVE FallbackFrom(_, _, _)
\* the for loop from the k-th section on, up to the next completion call:
\* a section whose template does not render gets the empty body at once
FallbackFrom(k, built, t) ==
  IF k > Len(sections_order) THEN [idx |-> k, built |-> built, trace |-> t]
  ELSE LET name == sections_order[k]
           t1 == Append(t, Ev("render", name))
       IN  IF Renders(PromptVars(name), req.ctx)
           THEN [idx |-> k, built |-> built,
                 trace |-> Append(t1, Ev("complete", name))]
           ELSE FallbackFrom(k + 1, Put(built, name, Str(<< >>)), t1)

\* continue the fallback at section k: either the next completion call
\* starts, or the loop is over and the document is returned
Fallback(k, built, f, t, l) ==
  LET nxt == FallbackFrom(k, built, t)
      f1 == [f EXCEPT !.built = nxt.built, !.idx = nxt.idx]
  IN  IF nxt.idx > Len(sections_order)
      THEN Goto("done", l, f1, nxt.trace, Return(FallbackDocument(nxt.built)))
      ELSE Goto("llm", NewCall("section", DefaultRetries, DefaultBackoff),
                f1, nxt.trace, NoResult)

\* the except branch of _ensure_json starts the one repair call
StartRepair(f, t) ==
  Goto("llm", NewCall("fix", DefaultRetries, DefaultBackoff), f,
       t \o << Ev("render", "fixer"), Ev("complete", "fix") >>, NoResult)

(***************************************************************************)
(* What each operation does when its completion call returns or raises     *)
(***************************************************************************)
\* the section the running completion call is for
CurrentName ==
  IF req.op = "generate" /\ frame.idx \in 1..Len(sections_order)
  THEN sections_order[frame.idx] ELSE req.name

\* r is Returned(text) or Failed; l is the client's frame at that moment;
\* t is the trace with the outcome of the call
ResumeComplete(r, l, t) ==
  Goto("done", l, frame, t,
       IF r.state = "returned" THEN Return(Str(r.text)) ELSE Raise("RuntimeError"))

ResumeSummarize(r, l, t) ==
  Goto("done", l, [frame EXCEPT !.out = r], t,
       IF r.state = "returned" THEN Return(SummarizeResult(r.text))
       ELSE Raise("RuntimeError"))

ResumeAudit(r, l, t) ==
  Goto("done", l, [frame EXCEPT !.out = r], t,
       IF r.state = "returned" THEN Return(AuditResult(r.text))
       ELSE Raise("RuntimeError"))

\* ResumeRegenerate substituting an empty body for a failed completion
ResumeRegenerateDefaults(r, l, t) ==
  Goto("done", l, frame, t,
       IF r.state = "returned" THEN Return(Str(r.text)) ELSE Return(Str(<< >>)))

\* regenerate_section after its completion call ended: SectionChain.run
\* hands the text on as it is, and catches nothing
ResumeRegenerate(r, l, t) ==
  Goto("done", l, frame, t,
       IF r.state = "returned" THEN Return(Str(r.text)) ELSE Raise("RuntimeError"))

\* ResumeEnsureJson asking for another repair when the repaired text does
\* not parse
ResumeEnsureJsonAgain(r, l, t) ==
  IF r.state = "returned" /\ ~FixedParses(r.text)
  THEN StartRepair([frame EXCEPT !.fixed = r], t)
  ELSE Goto("done", l, [frame EXCEPT !.fixed = r], t,
            IF r.state = "failed" THEN Raise("RuntimeError")
            ELSE Return(JsonLoads(Cleaned(r.text))))

ResumeEnsureJson(r, l, t) ==
  Goto("done", l, [frame EXCEPT !.fixed = r], t,
       IF r.state = "failed" THEN Raise("RuntimeError")
       ELSE IF FixedParses(r.text) THEN Return(JsonLoads(Cleaned(r.text)))
       ELSE Raise("JSONDecodeError"))

ResumeGenerateMain(r, l, t) ==
  LET f1 == [frame EXCEPT !.out = r]
  IN  IF r.state = "failed"
      THEN Goto("done", l, f1, t, Raise("RuntimeError"))
      ELSE IF DirectParses(r.text)
      THEN IF HasSections(JsonLoads(Cleaned(r.text)))
           THEN Goto("done", l, f1, t, Return(JsonLoads(Cleaned(r.text))))
           ELSE Fallback(1, Dict(<< >>), f1, t, l)
      ELSE StartRepair(f1, t)

ResumeGenerateFix(r, l, t) ==
  LET f1 == [frame EXCEPT !.fixed = r]
  IN  IF r.state = "returned" /\ FixedParses(r.text)
         /\ HasSections(JsonLoads(Cleaned(r.text)))
      THEN Goto("done", l, f1, t, Return(JsonLoads(Cleaned(r.text))))
      ELSE Fallback(1, Dict(<< >>), f1, t, l)

\* ResumeGenerateSection without the try around regenerate_section: a
\* failed section call ends generate
ResumeGenerateSectionPropagates(r, l, t) ==
  IF r.state = "failed"
  THEN Goto("done", l, frame, t, Raise("RuntimeError"))
  ELSE Fallback(frame.idx + 1,
                Put(frame.built, sections_order[frame.idx], Str(r.text)),
                frame, t, l)

ResumeGenerateSection(r, l, t) ==
  Fallback(frame.idx + 1,
           Put(frame.built, sections_order[frame.idx],
               IF r.state = "returned" THEN Str(r.text) ELSE Str(<< >>)),
           frame, t, l)

Resume(r, l) ==
  LET t == Append(trace, Outcome(IF l.site = "section" THEN CurrentName ELSE l.site, r))
  IN
  CASE req.op = "complete" -> ResumeComplete(r, l, t)
    [] req.op = "summarize" -> ResumeSummarize(r, l, t)
    [] req.op = "audit" -> ResumeAudit(r, l, t)
    [] req.op = "regenerate" -> ResumeRegenerate(r, l, t)
    [] req.op = "ensure_json" -> ResumeEnsureJson(r, l, t)
    [] req.op = "generate" /\ l.site = "main" -> ResumeGenerateMain(r, l, t)
    [] req.op = "generate" /\ l.site = "fix" -> ResumeGenerateFix(r, l, t)
    [] req.op = "generate" /\ l.site = "section" -> ResumeGenerateSection(r, l, t)

(***************************************************************************)
(* LLMClient.generate: one step per attempt of the retry loop              *)
(***************************************************************************)
\* self._llm.invoke returns: generate returns the text at once
InvokeReturns ==
  /\ pc = "llm"
  /\ \E text \in Responses(llm.site, CurrentName) :
       Resume(Returned(text),
              [llm EXCEPT !.invocations = @ + 1, !.resp = Returned(text)])
  /\ UNCHANGED req

\* the frame after self._llm.invoke raised: the warning, the sleep of
\* backoff * (i + 1), and the next value of i
AfterFailure(l) ==
  [l EXCEPT !.invocations = @ + 1,
            !.sleeps = Append(@, l.backoff * (l.i + 1)),
            !.i = @ + 1,
            !.resp = Failed]

\* InvokeRaises with the loop running one attempt too many
InvokeRaisesOneMore ==
  /\ pc = "llm"
  /\ LET l == AfterFailure(llm)
     IN  IF l.i <= l.retries
         THEN Goto("llm", l, frame, trace, result)
         ELSE Resume(Failed, l)
  /\ UNCHANGED req

\* self._llm.invoke raises: sleep, then either the next attempt or,
\* with the loop over, RuntimeError
InvokeRaises ==
  /\ pc = "llm"
  /\ LET l == AfterFailure(llm)
     IN  IF l.i < l.retries
         THEN Goto("llm", l, frame, trace, result)
         ELSE Resume(Failed, l)
  /\ UNCHANGED req

(***************************************************************************)
(* The operations                                                          *)
(***************************************************************************)
\* LLMClient.generate(prompt, retries, backoff) called directly
StartComplete ==
  /\ pc = "idle"
  /\ \E n \in 0..MaxRetries, b \in 1..MaxBackoff :
       /\ req' = Req("complete", { }, "", << >>)
       /\ IF n = 0
          THEN Goto("done", NewCall("direct", n, b), frame,
                    << Ev("complete", "direct") >>, Raise("RuntimeError"))
          ELSE Goto("llm", NewCall("direct", n, b), frame,
                    << Ev("complete", "direct") >>, NoResult)

\* SummarizationChain.run(transcript)
StartSummarize ==
  /\ pc = "idle"
  /\ req' = Req("summarize", { }, "", << >>)
  /\ Goto("llm", NewCall("summarize", DefaultRetries, DefaultBackoff), frame,
          << Ev("render", "summarize"), Ev("complete", "summarize") >>, NoResult)

\* QualityAuditChain.run(inputs, proposal_md)
StartAudit ==
  /\ pc = "idle"
  /\ req' = Req("audit", { }, "", << >>)
  /\ Goto("llm", NewCall("audit", DefaultRetries, DefaultBackoff), frame,
          << Ev("render", "audit"), Ev("complete", "audit") >>, NoResult)

\* MainProposalChain.regenerate_section(section_name, context)
StartRegenerate ==
  /\ pc = "idle"
  /\ \E name \in Canonical, c \in Contexts :
       /\ req' = Req("regenerate", c, name, << >>)
       /\ IF Renders(PromptVars(name), c)
          THEN Goto("llm", NewCall("section", DefaultRetries, DefaultBackoff),
                    frame, << Ev("render", name), Ev("complete", name) >>,
                    NoResult)
          ELSE Goto("done", llm, frame, << Ev("render", name) >>,
                    Raise("KeyError"))

\* MainProposalChain._ensure_json(text)
StartEnsureJson ==
  /\ pc = "idle"
  /\ \E text \in RawTexts :
       /\ req' = Req("ensure_json", { }, "", text)
       /\ IF DirectParses(text)
          THEN Goto("done", llm, frame, trace, Return(JsonLoads(Cleaned(text))))
          ELSE StartRepair(frame, trace)

\* MainProposalChain.generate(inputs)
StartGenerate ==
  /\ pc = "idle"
  /\ \E c \in Contexts :
       /\ req' = Req("generate", c, "", << >>)
       /\ IF Renders(main_template, c)
          THEN Goto("llm", NewCall("main", DefaultRetries, DefaultBackoff),
                    frame, << Ev("render", "main"), Ev("complete", "main") >>,
                    NoResult)
          ELSE Goto("done", llm, frame, << Ev("render", "main") >>,
                    Raise("KeyError"))

\* the caller has the outcome; the next operation starts from a clean slate
Finish ==
  /\ pc = "done"
  /\ req' = NoReq
  /\ Goto("idle", NoCall, NoFrame, << >>, NoResult)

Next ==
  \/ StartComplete
  \/ StartSummarize
  \/ StartAudit
  \/ StartRegenerate
  \/ StartEnsureJson
  \/ StartGenerate
  \/ InvokeReturns
  \/ InvokeRaises
  \/ Finish

Spec == Init /\ [][Next]_vars

(***************************************************************************)
(* Shared vocabulary of the properties                                     *)
(***************************************************************************)
Done == pc = "done"
Returns == Done /\ result.status = "returned"
Raises(e) == Done /\ result = Raise(e)

\* the positions of the trace holding the entry e
Positions(e) == { n \in 1..Len(trace) : trace[n] = e }

\* the entries of the trace about the canonical sections with the kinds evs,
\* in order
RECURSIVE SectionEntries(_, _)
SectionEntries(n, evs) ==
  IF n > Len(trace) THEN << >>
  ELSE IF trace[n].ev \in evs /\ trace[n].what \in Canonical
       THEN << trace[n] >> \o SectionEntries(n + 1, evs)
       ELSE SectionEntries(n + 1, evs)

\* the placeholders of the template a render entry names
RenderedVars(what) ==
  IF what = "main" THEN main_template
  ELSE IF what \in Canonical THEN PromptVars(what)
  ELSE { }

\* some template render of the operation met a placeholder that the
\* context has no entry for
MissingKeyMet ==
  \E n \in 1..Len(trace) :
     trace[n].ev = "render" /\ ~Renders(RenderedVars(trace[n].what), req.ctx)

\* text is one JSON document with nothing but whitespace around it
BareJson(text) == CanLoad(text)

\* text is a JSON document between a leading and a trailing fence, the
\* leading fence either bare or followed by the tag json and a newline
FencedJson(text) ==
  LET s == Strip(text)
      inner == SubSeq(s, 4, Len(s) - 3)
  IN  /\ Len(s) >= 7
      /\ SubSeq(s, 1, 3) = Fence
      /\ SubSeq(s, Len(s) - 2, Len(s)) = Fence
      /\ \/ CanLoad(inner)
         \/ /\ Len(inner) >= 3
            /\ inner[1] = "json"
            /\ inner[2] = NL
            /\ CanLoad(SubSeq(inner, 3, Len(inner)))

\* the value of the one JSON document a text holds
DocumentIn(text) ==
  Doc(CHOOSE d \in DocNames : \E n \in 1..Len(text) : text[n] = d)

(***************************************************************************)
(* C7  LLMClient.generate with retries = N invokes the completion          *)
(* capability at most N times; it returns the text of the first successful *)
(* invocation and invokes nothing after it; it raises RuntimeError only    *)
(* after exactly N invocations that all failed; while the call runs, fewer *)
(* than N attempts have been made, so every call ends in one of the two.   *)
(***************************************************************************)
C7_CompleteBounded ==
  /\ llm.invocations <= llm.retries
  /\ pc = "llm" =>
       /\ llm.i < llm.retries
       /\ llm.invocations = llm.i
       /\ Len(llm.sleeps) = llm.i
       /\ result = NoResult
  /\ req.op = "complete" /\ Done =>
       \/ /\ result.status = "returned"
          /\ llm.resp.state = "returned"
          /\ result.value = Str(llm.resp.text)
          /\ llm.invocations = Len(llm.sleeps) + 1
       \/ /\ result = Raise("RuntimeError")
          /\ llm.invocations = llm.retries
          /\ Len(llm.sleeps) = llm.retries

\* a direct call that failed twice, then returned, with attempts left
C7_Witness ==
  /\ req.op = "complete"
  /\ Returns
  /\ llm.invocations = 3
  /\ llm.retries > 3

(***************************************************************************)
(* C8  _ensure_json on a text that is valid JSON, bare or between code     *)
(* fences with an optional json tag, returns the parsed document and makes *)
(* no completion call: nothing is rendered, no repair is started.          *)
(***************************************************************************)
C8_ValidJsonNoRepair ==
  req.op = "ensure_json" /\ (BareJson(req.text) \/ FencedJson(req.text)) =>
    /\ Done
    /\ result = Return(DocumentIn(req.text))
    /\ trace = << >>
    /\ llm = NoCall

\* a document between fences, with the json tag, was extracted
C8_Witness ==
  /\ req.op = "ensure_json"
  /\ FencedJson(req.text)
  /\ \E n \in 1..Len(req.text) : req.text[n] = "json"
  /\ Returns

(***************************************************************************)
(* C9  _ensure_json on a text that is empty or does not parse starts       *)
(* exactly one repair completion call; when that call returns a text, the  *)
(* result is the parse of the fence-stripped repaired text if it is valid  *)
(* JSON and a JSON error otherwise; when the call fails the extraction     *)
(* fails; no extraction, in any operation, starts a second repair call.    *)
(***************************************************************************)
C9_OneRepair ==
  /\ Cardinality(Positions(Ev("complete", "fix"))) <= 1
  /\ req.op = "ensure_json" /\ ~DirectParses(req.text) =>
       /\ Cardinality(Positions(Ev("complete", "fix"))) = 1
       /\ Cardinality(Positions(Ev("render", "fixer"))) = 1
       /\ pc = "llm" => llm.site = "fix"
       /\ Done =>
            /\ frame.fixed.state \in { "returned", "failed" }
            /\ frame.fixed.state = "returned" =>
                 /\ trace[Len(trace)] = Outcome("fix", frame.fixed)
                 /\ BareJson(frame.fixed.text) \/ FencedJson(frame.fixed.text) =>
                      result = Return(DocumentIn(frame.fixed.text))
                 /\ FixedParses(frame.fixed.text) => Returns
                 /\ ~FixedParses(frame.fixed.text) => Raises("JSONDecodeError")
            /\ frame.fixed.state = "failed" => Raises("RuntimeError")

\* an unparseable text was repaired by a fenced document
C9_Witness ==
  /\ req.op = "ensure_json"
  /\ ~DirectParses(req.text)
  /\ req.text # << >>
  /\ Returns
  /\ FencedJson(frame.fixed.text)

(***************************************************************************)
(* Vocabulary of the generate properties                                   *)
(***************************************************************************)
\* the sections mapping of an extracted value: empty when the value is no
\* mapping, or has no sections entry, or its sections entry is no mapping
SectionsOf(data) ==
  IF IsDict(data) /\ Has(data, "sections") /\ IsDict(Get(data, "sections"))
  THEN Get(data, "sections") ELSE Dict(<< >>)

\* generate's primary completion returned a text from which no non-empty
\* sections mapping is extracted: the direct parse and the one repair both
\* failed (the repair call failing, or its text not parsing), or the
\* extracted value has no section
NoSectionsExtracted ==
  /\ frame.out.state = "returned"
  /\ IF DirectParses(frame.out.text)
     THEN Len(SectionsOf(JsonLoads(Cleaned(frame.out.text))).v) = 0
     ELSE \/ frame.fixed.state = "failed"
          \/ /\ frame.fixed.state = "returned"
             /\ \/ ~FixedParses(frame.fixed.text)
                \/ Len(SectionsOf(JsonLoads(Cleaned(frame.fixed.text))).v) = 0

\* the outcomes of the completion calls made for the section name
OutcomesFor(name) ==
  { n \in 1..Len(trace) :
      trace[n].what = name /\ trace[n].ev \in { "returned", "failed" } }

\* the body regenerate_section accounts for: the text its completion call
\* returned, and the empty text when the call or the render failed
BodyFor(name) ==
  LET got == { n \in 1..Len(trace) :
                 trace[n].what = name /\ trace[n].ev = "returned" }
  IN  IF got = { } THEN Str(<< >>) ELSE Str(trace[CHOOSE n \in got : TRUE].text)

C1_AlwaysFullyKeyed ==
  req.op = "generate" /\ Done /\ frame.out.state # "unset" =>
    /\ Returns
    /\ IsDict(result.value)
    /\ IsDict(Get(result.value, "sections"))
    /\ Canonical \subseteq KeySet(Get(result.value, "sections"))

(***************************************************************************)
(* C3  SummarizationChain.run never fails outward: whatever the completion *)
(* capability does, also when the client has exhausted its retries, it     *)
(* returns an insights record, all-empty when the extraction failed.       *)
(***************************************************************************)
C3_SummarizeNeverFails ==
  req.op = "summarize" /\ Done =>
    /\ Returns
    /\ IsDict(result.value)
    /\ (frame.out.state = "failed" \/ ~CanLoad(frame.out.text)) =>
         result.value = EmptyInsights

(***************************************************************************)
(* C4  Whenever SummarizationChain.run returns, its result has the five    *)
(* insight keys and the value of each of them is a list.                   *)
(***************************************************************************)
C4_InsightsAreLists ==
  req.op = "summarize" /\ Returns =>
    /\ IsDict(result.value)
    /\ \A n \in 1..Len(InsightKeys) :
         /\ Has(result.value, InsightKeys[n])
         /\ IsList(Get(result.value, InsightKeys[n]))

(***************************************************************************)
(* C5  QualityAuditChain.run returns the fixed default audit on any        *)
(* failure, in particular when the completion client raises on every       *)
(* attempt, and never raises to its caller.                                *)
(***************************************************************************)
C5_AuditDefaultOnFailure ==
  req.op = "audit" /\ Done =>
    /\ Returns
    /\ (frame.out.state = "failed" \/ ~CanLoad(frame.out.text)) =>
         result.value = DefaultAudit

(***************************************************************************)
(* C6  Every value QualityAuditChain.run returns is a fully shaped audit:  *)
(* a mapping with grade, summary, suggestions and apply_notes, the grade   *)
(* an integer in 0..100, suggestions and apply_notes lists.                *)
(***************************************************************************)
C6_AuditFullyShaped ==
  req.op = "audit" /\ Returns =>
    /\ IsDict(result.value)
    /\ \A k \in { "grade", "summary", "suggestions", "apply_notes" } :
         Has(result.value, k)
    /\ Get(result.value, "grade").type = "int"
    /\ Get(result.value, "grade").v \in 0..100
    /\ IsList(Get(result.value, "suggestions"))
    /\ IsList(Get(result.value, "apply_notes"))

(***************************************************************************)
(* C10  A missing context key is never absorbed: once a render of the main *)
(* template or of a section template (also in the per-section fallback of  *)
(* generate) has met a placeholder without context entry, the operation    *)
(* ends at once with KeyError for its caller; the render is the last thing *)
(* it did and is not tried again.                                          *)
(***************************************************************************)
C10_MissingKeySurfaced ==
  MissingKeyMet =>
    /\ Raises("KeyError")
    /\ trace[Len(trace)].ev = "render"
    /\ Cardinality(Positions(trace[Len(trace)])) = 1

(***************************************************************************)
(* Section text normalization of the app (app.py): a str is a sequence of  *)
(* characters; the words Milestone, milestone, Date and date are single    *)
(* tokens, T is the capital of t.                                          *)
(***************************************************************************)
HASH == "#"
PIPE == "|"
DASH == "-"

\* the marker of a heading has 1 to MaxHashes hash characters
MaxHashes == 6
\* _fix_inline_table looks at bodies with at most MaxBreaks newlines and at
\* least MinPipes pipe characters
MaxBreaks == 2
MinPipes == 8

\* c.lower(): T is the only capital letter of the bodies; a word token
\* (a section name, Milestone, Date) is compared as a whole
LowerChar(c) ==
  CASE c = "T" -> "t"
    [] c = "Milestone" -> "milestone"
    [] c = "Date" -> "date"
    [] OTHER -> c

\* s.lower()
Lower(s) == [n \in 1..Len(s) |-> LowerChar(s[n])]

\* s.lstrip()
LStrip(s) ==
  LET keep == { n \in 1..Len(s) : s[n] \notin Whitespace }
  IN  IF keep = {} THEN << >> ELSE SubSeq(s, SetMin(keep), Len(s))

\* s.count(c)
Count(s, c) == Cardinality({ n \in 1..Len(s) : s[n] = c })

\* c in s
Contains(s, c) == \E n \in 1..Len(s) : s[n] = c

RECURSIVE SplitLines(_)
\* s.splitlines(): a newline at the end opens no further line
SplitLines(s) ==
  IF s = << >> THEN << >>
  ELSE LET breaks == { n \in 1..Len(s) : s[n] = NL }
       IN  IF breaks = {} THEN << s >>
           ELSE << SubSeq(s, 1, SetMin(breaks) - 1) >>
                \o SplitLines(SubSeq(s, SetMin(breaks) + 1, Len(s)))

RECURSIVE Split(_, _)
\* s.split(c): one piece more than there are separators
Split(s, c) ==
  LET at == { n \in 1..Len(s) : s[n] = c }
  IN  IF at = {} THEN << s >>
      ELSE << SubSeq(s, 1, SetMin(at) - 1) >>
           \o Split(SubSeq(s, SetMin(at) + 1, Len(s)), c)

RECURSIVE Join(_, _)
\* sep.join(parts)
Join(parts, sep) ==
  IF parts = << >> THEN << >>
  ELSE IF Len(parts) = 1 THEN parts[1]
  ELSE parts[1] \o sep \o Join(Tail(parts), sep)

\* the items of a list that satisfy a test, in order
RECURSIVE Filter(_, _)
Filter(items, keep) ==
  IF items = << >> THEN << >>
  ELSE IF keep[1] THEN << items[1] >> \o Filter(Tail(items), Tail(keep))
  ELSE Filter(Tail(items), Tail(keep))

\* [line.strip() for line in s.splitlines() if line.strip()]
ContentLines(s) ==
  LET lines == SplitLines(s)
  IN  Filter([n \in 1..Len(lines) |-> Strip(lines[n])],
             [n \in 1..Len(lines) |-> Strip(lines[n]) # << >>])

\* the number of hash characters a line starts with
Hashes(ln) ==
  LET other == { n \in 1..Len(ln) : ln[n] # HASH }
  IN  IF other = {} THEN Len(ln) ELSE SetMin(other) - 1

\* re.match(r"^#{1,6}\s+", ln)
IsHeading(ln) ==
  /\ Hashes(ln) \in 1..MaxHashes
  /\ Len(ln) > Hashes(ln)
  /\ ln[Hashes(ln) + 1] \in Whitespace

\* re.sub(r"^#{1,6}\s+", "", ln): the marker and the whitespace after it go
StripMarker(ln) ==
  IF IsHeading(ln) THEN LStrip(SubSeq(ln, Hashes(ln) + 1, Len(ln))) ELSE ln

\* _fix_inline_table: the cells between the pipes, stripped, empty ones
\* left out
Tokens(s) ==
  LET pieces == Split(s, PIPE)
      stripped == [n \in 1..Len(pieces) |-> Strip(pieces[n])]
  IN  Filter(stripped, [n \in 1..Len(pieces) |-> stripped[n] # << >>])

\* f"| {a} | {b} |"
TableRow(a, b) == << PIPE, SP >> \o a \o << SP, PIPE, SP >> \o b \o << SP, PIPE >>

SeparatorRow == TableRow(<< DASH, DASH, DASH >>, << DASH, DASH, DASH >>)

\* set(token).issubset({'-'})
DashOnly(token) == \A n \in 1..Len(token) : token[n] = DASH

RECURSIVE Pairs(_, _)
\* the while loop: the tokens from idx on, two at a time; a last token
\* without partner is left out
Pairs(tokens, idx) ==
  IF idx + 1 > Len(tokens) THEN << >>
  ELSE << TableRow(tokens[idx], tokens[idx + 1]) >> \o Pairs(tokens, idx + 2)

\* _fix_inline_table(body)
FixInlineTable(body) ==
  IF ~Contains(body, PIPE) \/ Count(body, NL) > MaxBreaks THEN body
  ELSE LET s == Strip(body)
           tokens == Tokens(s)
           idx == IF 4 <= Len(tokens) /\ DashOnly(tokens[3]) THEN 5 ELSE 3
       IN  IF /\ Count(s, PIPE) >= MinPipes
              /\ Contains(s, "Milestone")
              /\ Contains(s, "Date")
              /\ Len(tokens) >= 2
              /\ Len(tokens[1]) >= 1
              /\ LowerChar(tokens[1][1]) = "milestone"
           THEN Join(<< TableRow(tokens[1], tokens[2]), SeparatorRow >>
                     \o Pairs(tokens, idx), << NL >>)
           ELSE body

RECURSIVE DedupeFrom(_, _, _, _)
\* the loop of _dedupe_headings from line n on: prev is the text of the
\* last heading kept, as a one-element sequence, or empty for None
DedupeFrom(lines, n, prev, title_norm) ==
  IF n > Len(lines) THEN << >>
  ELSE LET ln == lines[n]
           text == Lower(Strip(StripMarker(ln)))
           plain == Lower(Strip(ln))
       IN  IF IsHeading(ln)
           THEN IF prev = << text >>
                THEN DedupeFrom(lines, n + 1, prev, title_norm)
                ELSE << ln >> \o DedupeFrom(lines, n + 1, << text >>, title_norm)
           ELSE IF plain # << >> /\ (prev = << plain >> \/ plain = title_norm)
                THEN DedupeFrom(lines, n + 1, prev, title_norm)
                ELSE << ln >> \o DedupeFrom(lines, n + 1, prev, title_norm)

\* _dedupe_headings(title, body)
DedupeHeadings(title, body) ==
  Strip(Join(DedupeFrom(SplitLines(body), 1, << >>, Lower(Strip(title))),
             << NL >>))

\* _normalize_section without the removal of the leading title line
NormalizeSectionKeepsTitle(title, body) ==
  Strip(FixInlineTable(DedupeHeadings(title, LStrip(body))))

\* _normalize_section(title, body)
NormalizeSection(title, body) ==
  LET b == LStrip(body)
      lines == SplitLines(b)
      b1 == IF /\ lines # << >>
               /\ Lower(Strip(StripMarker(lines[1]))) = Lower(Strip(title))
            THEN Join(Tail(lines), << NL >>)
            ELSE b
  IN  Strip(FixInlineTable(DedupeHeadings(title, b1)))

(***************************************************************************)
(* Inputs of the normalization: titles, bodies of a few lines, and         *)
(* collapsed tables                                                        *)
(***************************************************************************)
\* a body has at most MaxLines lines
MaxLines == 3
\* a collapsed table has at most MaxCells cells after its header
MaxCells == 5

Titles == { << "T" >>, << "a" >> }

LineShapes ==
  { << >>, << SP >>, << "T" >>, << HASH, SP, "T" >>,
    << HASH, HASH, SP, "t", SP >>, << "a" >>, << HASH, SP, "a" >>,
    << SP, "a" >>, << HASH, "T" >>, << "a", SP, "T" >>,
    << HASH, HASH, HASH, HASH, HASH, HASH, HASH, SP, "T" >> }

RECURSIVE LineLists(_)
LineLists(n) ==
  IF n = 0 THEN { << >> }
  ELSE LineLists(n - 1)
       \cup { Append(ls, ln) : ls \in { l \in LineLists(n - 1) : Len(l) = n - 1 },
                               ln \in LineShapes }

TextBodies ==
  { Join(ls, << NL >>) \o end : ls \in LineLists(MaxLines), end \in { << >>, << NL >> } }

\* the cells of a collapsed table: a header pair, an optional pair of
\* dashes, then data cells
HeaderPairs ==
  { << << "Milestone" >>, << "Date" >> >>, << << "Date" >>, << "Milestone" >> >>,
    << << "milestone", SP, "Milestone" >>, << "Date" >> >>,
    << << "a" >>, << "Milestone" >> >> }
DashPairs == { << >>, << << DASH, DASH, DASH >>, << DASH >> >> }
DataCells == { << "a" >>, << "Date" >> }

RECURSIVE CellLists(_)
CellLists(n) ==
  IF n = 0 THEN { << >> }
  ELSE CellLists(n - 1)
       \cup { Append(cs, c) : cs \in { l \in CellLists(n - 1) : Len(l) = n - 1 },
                              c \in DataCells }

TableLines ==
  { lead \o Join(h \o d \o cs, << SP, PIPE, SP >>) \o trail :
      h \in HeaderPairs, d \in DashPairs, cs \in CellLists(MaxCells),
      lead \in { << >>, << PIPE, SP >> }, trail \in { << >>, << SP, PIPE >> } }

TableBodies ==
  TableLines \cup { << "T", NL >> \o tl : tl \in TableLines }

NormInputs ==
  { [title |-> t, body |-> b, outs |-> << >>] :
      t \in Titles, b \in TextBodies \cup TableBodies }

(***************************************************************************)
(* The normalization applied again and again to its own result             *)
(***************************************************************************)
\* the session normalizes a body, stores nothing, and normalizes the same
\* content again on the next run: at most MaxPasses passes are followed
MaxPasses == 2

NormInit ==
  /\ norm \in NormInputs
  /\ clean = NoClean
  /\ session = NewSession
  /\ PipelineIdle

\* _normalize_section(title, body), then on its own result
Normalize ==
  /\ Len(norm.outs) < MaxPasses
  /\ norm' = [norm EXCEPT !.outs =
                Append(@, NormalizeSection(norm.title,
                                           IF @ = << >> THEN norm.body
                                           ELSE @[Len(@)]))]
  /\ UNCHANGED << pipeline, clean, session >>

NormNext == Normalize

SpecNormalize == NormInit /\ [][NormNext]_vars

(***************************************************************************)
(* C15  _normalize_section is idempotent: normalizing its own result with  *)
(* the same title changes nothing.                                         *)
(***************************************************************************)
C15_NormalizeIdempotent ==
  \A n \in 2..Len(norm.outs) : norm.outs[n] = norm.outs[n - 1]

\* the first line of body that is not blank is the title, with or without
\* heading marker, in any letter case
TitleLineFirst(title, body) ==
  /\ ContentLines(body) # << >>
  /\ Lower(Strip(StripMarker(ContentLines(body)[1]))) = Lower(Strip(title))

\* the text of the last heading among the lines before the n-th, as a
\* one-element sequence; empty when there is none
LastHeading(lines, n) ==
  LET before == { m \in 1..(n - 1) : IsHeading(lines[m]) }
  IN  IF before = {} THEN << >>
      ELSE << Lower(Strip(StripMarker(lines[SetMax(before)]))) >>

\* the n-th line repeats what is there already: a heading with the text of
\* the heading before it, or a plain line that is the title or the text of
\* the last heading
Repeats(lines, n, title) ==
  IF IsHeading(lines[n])
  THEN LastHeading(lines, n) = << Lower(Strip(StripMarker(lines[n]))) >>
  ELSE /\ Strip(lines[n]) # << >>
       /\ \/ LastHeading(lines, n) = << Lower(Strip(lines[n])) >>
          \/ Lower(Strip(lines[n])) = Lower(Strip(title))

(***************************************************************************)
(* C16 (as stated)  When the first non-blank line of the body is the       *)
(* title, _normalize_section removes exactly that line: the other lines of *)
(* the body that hold content are the lines of the output, in their order. *)
(***************************************************************************)
C16_OnlyTitleLineRemoved ==
  Len(norm.outs) >= 1 /\ TitleLineFirst(norm.title, norm.body) =>
    ContentLines(norm.outs[1]) = Tail(ContentLines(norm.body))

(***************************************************************************)
(* C16 (amended)  When the first non-blank line of the body is the title,  *)
(* _normalize_section removes that line; of the lines after it, it drops   *)
(* the headings that repeat the heading before them and the plain lines    *)
(* equal to the title or to the last heading, keeps every other line in    *)
(* its order, and strips the whitespace around the whole; when what is     *)
(* left is a collapsed table that the table repair rewrites, the output is *)
(* the rewritten table: a header row of the first two cells, then the      *)
(* separator row.                                                          *)
(***************************************************************************)
C16_TitleLineAndRepeatsRemoved ==
  Len(norm.outs) >= 1 /\ TitleLineFirst(norm.title, norm.body) =>
    LET rest == Tail(SplitLines(LStrip(norm.body)))
        kept == Filter(rest, [n \in 1..Len(rest) |-> ~Repeats(rest, n, norm.title)])
        left == Strip(Join(kept, << NL >>))
        rows == SplitLines(norm.outs[1])
    IN  IF FixInlineTable(left) = left
        THEN norm.outs[1] = left
        ELSE /\ Len(rows) >= 2
             /\ rows[1] = TableRow(Tokens(left)[1], Tokens(left)[2])
             /\ rows[2] = SeparatorRow

\* the title heading went, and so did a later plain line equal to the title
C16_Witness ==
  /\ norm.title = << "T" >>
  /\ norm.body = << HASH, SP, "T", NL, "a", NL, "T" >>
  /\ norm.outs = << << "a" >> >>

(***************************************************************************)
(* C17  For a single-line body with at least 8 pipes that holds both       *)
(* Milestone and Date, _normalize_section gives at least 3 lines: a header *)
(* row, a separator row and data rows, each of two columns, and every cell *)
(* of the input that is not a dash separator is in one of the rows.        *)
(***************************************************************************)
C17_CollapsedTableRebuilt ==
  /\ Len(norm.outs) >= 1
  /\ ~Contains(norm.body, NL)
  /\ Count(norm.body, PIPE) >= MinPipes
  /\ Contains(norm.body, "Milestone")
  /\ Contains(norm.body, "Date")
  =>
  LET rows == SplitLines(norm.outs[1])
      cells == Tokens(norm.body)
  IN  /\ Len(rows) >= 3
      /\ \A r \in 1..Len(rows) : Len(Tokens(rows[r])) = 2
      /\ rows[2] = SeparatorRow
      /\ \A c \in 1..Len(cells) :
           DashOnly(cells[c]) \/
           \E r \in 1..Len(rows) : \E k \in 1..2 : Tokens(rows[r])[k] = cells[c]

(***************************************************************************)
(* Text cleaning: clean_transcript (utils.py) and LLMClient._normalize     *)
(* (chains.py).  A typographic character is one token, named as in HTML;   *)
(* surrogate is a character that UTF-8 cannot encode.                      *)
(***************************************************************************)
DOT == "."
Typographic == { "lsquo", "rsquo", "ldquo", "rdquo", "ndash", "mdash", "hellip" }
Unencodable == { "surrogate" }

\* the translate table: one character for one character
TranslateChar(c) ==
  CASE c \in { "lsquo", "rsquo" } -> "'"
    [] c \in { "ldquo", "rdquo" } -> "\""
    [] c \in { "ndash", "mdash" } -> DASH
    [] c = "hellip" -> DOT
    [] OTHER -> c

\* text.translate(table)
Translate(s) == [n \in 1..Len(s) |-> TranslateChar(s[n])]

RECURSIVE ReplaceEllipsis(_)
\* s.replace of the ellipsis character by three periods
ReplaceEllipsis(s) ==
  IF s = << >> THEN << >>
  ELSE (IF Head(s) = "hellip" THEN << DOT, DOT, DOT >> ELSE << Head(s) >>)
       \o ReplaceEllipsis(Tail(s))

\* s.encode("utf-8", errors="ignore").decode("utf-8")
Reencode(s) == Filter(s, [n \in 1..Len(s) |-> s[n] \notin Unencodable])

\* LLMClient._normalize(text)
LLMNormalize(text) == Reencode(ReplaceEllipsis(Translate(text)))

\* clean_transcript(text)
CleanTranscript(text) ==
  Reencode(Join(ContentLines(ReplaceEllipsis(Translate(text))), << NL >>))

\* a text has at most MaxChars characters
MaxChars == 3

CleanAlphabet == { "a", SP, NL, DOT } \cup Typographic \cup Unencodable

RECURSIVE TextsUpTo(_)
TextsUpTo(n) ==
  IF n = 0 THEN { << >> }
  ELSE TextsUpTo(n - 1)
       \cup { Append(t, c) : t \in { u \in TextsUpTo(n - 1) : Len(u) = n - 1 },
                             c \in CleanAlphabet }

\* the text of test_clean_transcript
TestText == << SP, "a", NL, NL, SP, "b", SP, NL >>

CleanInputs ==
  { [text |-> t, outs |-> << >>, prompts |-> << >>] :
      t \in TextsUpTo(MaxChars) \cup { TestText } }

CleanInit ==
  /\ clean \in CleanInputs
  /\ norm = NoNorm
  /\ session = NewSession
  /\ PipelineIdle

\* clean_transcript(text), then on its own result
Clean ==
  /\ Len(clean.outs) < MaxPasses
  /\ clean' = [clean EXCEPT !.outs =
                 Append(@, CleanTranscript(IF @ = << >> THEN clean.text
                                           ELSE @[Len(@)]))]
  /\ UNCHANGED << pipeline, norm, session >>

\* LLMClient.generate normalizes the prompt before it invokes the model
NormalizePrompt ==
  /\ clean.prompts = << >>
  /\ clean' = [clean EXCEPT !.prompts = << LLMNormalize(clean.text) >>]
  /\ UNCHANGED << pipeline, norm, session >>

CleanNext == Clean \/ NormalizePrompt

SpecClean == CleanInit /\ [][CleanNext]_vars

(***************************************************************************)
(* C18  clean_transcript is idempotent: cleaning its own result changes    *)
(* nothing, also for texts with typographic punctuation, blank or padded   *)
(* lines and characters that cannot be encoded.                            *)
(***************************************************************************)
C18_CleanIdempotent ==
  \A n \in 2..Len(clean.outs) : clean.outs[n] = clean.outs[n - 1]

\* the ASCII text that stands for a character
AsciiFor(c) ==
  CASE c \in { "lsquo", "rsquo" } -> << "'" >>
    [] c \in { "ldquo", "rdquo" } -> << "\"" >>
    [] c \in { "ndash", "mdash" } -> << DASH >>
    [] c = "hellip" -> << DOT, DOT, DOT >>
    [] c \in Unencodable -> << >>
    [] OTHER -> << c >>

RECURSIVE AsciiText(_)
AsciiText(s) ==
  IF s = << >> THEN << >> ELSE AsciiFor(Head(s)) \o AsciiText(Tail(s))

(***************************************************************************)
(* C19  Both clean_transcript and the prompt normalization of the          *)
(* completion client replace every typographic character by its ASCII      *)
(* equivalent: a curly quote by the straight quote, an en or em dash by a  *)
(* hyphen, an ellipsis by three periods.                                   *)
(***************************************************************************)
C19_AsciiEquivalents ==
  /\ \A n \in 1..Len(clean.prompts) : clean.prompts[n] = AsciiText(clean.text)
  /\ Len(clean.outs) >= 1 =>
       \A c \in { "a", DOT, DASH, "'", "\"" } \cup Typographic :
          Count(clean.outs[1], c) = Count(AsciiText(clean.text), c)

(***************************************************************************)
(* C20  The output of clean_transcript has only lines that are not empty   *)
(* and have no whitespace at either end: it is the lines of the input,     *)
(* each stripped, the blank ones dropped, in their order, joined by single *)
(* newlines.                                                               *)
(***************************************************************************)
C20_LinesStripped ==
  Len(clean.outs) >= 1 =>
    LET out == clean.outs[1]
        lines == Split(out, NL)
    IN  /\ out # << >> =>
             \A n \in 1..Len(lines) :
                lines[n] # << >> /\ Strip(lines[n]) = lines[n]
        /\ out = Join(ContentLines(LLMNormalize(clean.text)), << NL >>)

(***************************************************************************)
(* The session of the app (app.py): one action per run of the script, the  *)
(* run a click or an edit starts.  A run executes the handler of the       *)
(* button clicked and the Editor, in the order of the script.              *)
(***************************************************************************)
\* a session is followed for at most MaxRuns runs of the script
MaxRuns == 3
\* the clock of the saves, in seconds, goes up to MaxClock
MaxClock == 1

\* re.match(r"^#{1,6}\\s+", ln) as the generate handler and the Editor
\* write it: in a raw string the pattern asks for a backslash and the
\* letter s after the hashes
IsHeadingLiteral(ln) ==
  /\ Hashes(ln) \in 1..MaxHashes
  /\ Len(ln) >= Hashes(ln) + 2
  /\ ln[Hashes(ln) + 1] = "\\"
  /\ ln[Hashes(ln) + 2] = "s"

\* one block of the full document: the normalized body, with a heading
\* line of the title put before it unless its first line passes the
\* heading test of the place (literal: generate and Editor)
Block(k, body, literal) ==
  LET b == NormalizeSection(<< k >>, body)
      lines == SplitLines(LStrip(b))
      first == IF lines = << >> THEN << >> ELSE << lines[1] >>
      headed == /\ first # << >>
                /\ IF literal THEN IsHeadingLiteral(first[1]) ELSE IsHeading(first[1])
  IN  IF headed THEN b ELSE << HASH, SP, k, NL, NL >> \o b

\* "\n\n".join of the blocks of the sections, in the order of the dict
Compose(sections, literal) ==
  Join([n \in 1..Len(sections.v) |->
          Block(sections.v[n][1], sections.v[n][2].v, literal)],
       << NL, NL >>)

RECURSIVE EditorFill(_, _, _)
\* the for loop of the Editor from the n-th name on: a text area shows the
\* stored body, or the empty text for a name without entry, and what it
\* holds is stored under the name; typed maps the names the user edited
\* in this run to the text typed
EditorFill(sections, n, typed) ==
  IF n > Len(sections_order) THEN sections
  ELSE LET name == sections_order[n]
           current == IF Has(sections, name) THEN Get(sections, name) ELSE Str(<< >>)
           updated == IF name \in DOMAIN typed THEN Str(typed[name]) ELSE current
       IN  EditorFill(Put(sections, name, updated), n + 1, typed)

\* the Editor part of the script: skipped while there are no sections
Editor(s, typed) ==
  IF Len(s.sections.v) = 0 THEN s
  ELSE LET filled == EditorFill(s.sections, 1, typed)
       IN  [s EXCEPT !.sections = filled,
                     !.markdown_full = Compose(filled, TRUE)]

NoEdit == [n \in { } |-> << >>]

\* history entries: the snapshot a generate appends, and the previous body
\* a regenerate appends
Snapshot(sections) ==
  [section |-> "", previous |-> NoneValue, sections |-> sections]
Previous(name, body) ==
  [section |-> name, previous |-> body, sections |-> NoneValue]

\* data.get("sections", {})
SectionsOfData(data) ==
  IF Has(data, "sections") THEN Get(data, "sections") ELSE Dict(<< >>)

\* the try block of the handler gets through: sections.items() needs a
\* mapping, _normalize_section a text or None as body
Processable(data) ==
  /\ IsDict(SectionsOfData(data))
  /\ \A n \in 1..Len(SectionsOfData(data).v) :
       SectionsOfData(data).v[n][2].type \in { "str", "none" }

\* GenerateHandler appending the new sections instead of the old ones
GenerateHandlerSnapshotsNew(s, data) ==
  LET sections == SectionsOfData(data)
  IN  IF ~Processable(data) THEN s
      ELSE [s EXCEPT !.history = Append(@, Snapshot(sections)),
                     !.sections = sections,
                     !.markdown_full = Compose(sections, TRUE)]

\* the if gen_btn block once main_chain.generate returned data: an error
\* of the try block is caught before anything is stored
GenerateHandler(s, data) ==
  LET sections == SectionsOfData(data)
  IN  IF ~Processable(data) THEN s
      ELSE [s EXCEPT !.history = Append(@, Snapshot(s.sections)),
                     !.sections = sections,
                     !.markdown_full = Compose(sections, TRUE)]

\* the if save_btn block: save_proposal_json writes the file of the id,
\* which the clock second gives (the slug is the same for all saves)
SaveHandler(s) ==
  LET record == [id |-> s.clock, sections |-> s.sections, history |-> s.history]
      others == Filter(s.store, [n \in 1..Len(s.store) |-> s.store[n].id # s.clock])
  IN  [s EXCEPT !.store = Append(others, record),
                !.proposal_id = Int_(s.clock),
                !.saves = @ + 1]

\* the if qc_btn block once qa_chain.run returned audit:
\* proposal.setdefault("qa", audit)
QualityHandler(s, audit) ==
  [s EXCEPT !.qa = IF s.qa = NoneValue THEN audit ELSE s.qa]

\* the Regenerate Section block once regenerate_section returned text
RegenerateHandler(s, target, text) ==
  LET previous == IF Has(s.sections, target) THEN Get(s.sections, target)
                  ELSE Str(<< >>)
      sections == Put(s.sections, target, Str(text))
  IN  [s EXCEPT !.history = Append(@, Previous(target, previous)),
                !.sections = sections,
                !.markdown_full = Compose(sections, FALSE)]

\* the Load block for the record data
LoadHandler(s, data) ==
  [s EXCEPT !.sections = data.sections,
            !.markdown_full = Compose(data.sections, FALSE),
            !.proposal_id = Int_(data.id)]

\* what main_chain.generate may hand to the handler: a parsed document, the
\* document of the per-section fallback with one body empty, or an error
SessionDocs == { "full", "partial", "foreign", "headed", "listed" }
FallbackSections ==
  Dict([n \in 1..Len(sections_order) |->
          << sections_order[n],
             IF n = 2 THEN Str(<< >>) ELSE Str(SectionBody(sections_order[n])) >>])
GenerateOutcomes ==
  { Return(Doc(d)) : d \in SessionDocs }
  \cup { Return(FallbackDocument(FallbackSections)),
         Raise("RuntimeError"), Raise("KeyError") }

\* the names of the Section selectbox the model regenerates
RegenTargets == { "Executive Summary", "Appendix" }
\* the text areas the model types into, and the texts typed
EditNames == { "Cover Page", "Executive Summary" }
EditTexts == { << >>, << HASH, SP, "Cover Page", NL, "edited" >> }

\* what qa_chain.run may hand to the handler: the parsed audit, the default
\* audit for a text that does not parse, or the error of the completion
AuditOutcomes ==
  { Return(AuditResult(t)) : t \in { << "x" >>, << "audit_ok" >> } }
  \cup { Raise("RuntimeError") }

\* the end of a run of the script
Ran(s, action, ok, value) ==
  [s EXCEPT !.runs = @ + 1,
            !.last = [action |-> action, ok |-> ok, value |-> value]]

SessionInit ==
  /\ session = NewSession
  /\ norm = NoNorm
  /\ clean = NoClean
  /\ PipelineIdle

\* a click on Generate Proposal: the handler, then the Editor
RunGenerate ==
  /\ session.runs < MaxRuns
  /\ \E outcome \in GenerateOutcomes :
       session' = Ran(Editor(IF outcome.status = "returned"
                             THEN GenerateHandler(session, outcome.value)
                             ELSE session,
                             NoEdit),
                      "generate",
                      outcome.status = "returned" /\ Processable(outcome.value),
                      NoneValue)
  /\ UNCHANGED << pipeline, norm, clean >>

\* the user changes the text of one text area: the Editor stores it
RunEdit ==
  /\ session.runs < MaxRuns
  /\ Len(session.sections.v) > 0
  /\ \E name \in EditNames, text \in EditTexts :
       session' = Ran(Editor(session, [n \in { name } |-> text]),
                      "edit", TRUE, NoneValue)
  /\ UNCHANGED << pipeline, norm, clean >>

\* a click on Save Draft: the handler, then the Editor
RunSave ==
  /\ session.runs < MaxRuns
  /\ Len(session.sections.v) > 0
  /\ session' = Ran(Editor(SaveHandler(session), NoEdit), "save", TRUE, NoneValue)
  /\ UNCHANGED << pipeline, norm, clean >>

\* a click on Regenerate Section: the Editor, then the handler; an error
\* of regenerate_section ends the run
RunRegenerate ==
  /\ session.runs < MaxRuns
  /\ Len(session.sections.v) > 0
  /\ \E target \in RegenTargets :
       \E outcome \in { Return(Str(SectionBody(target))),
                         Return(Str(<< HASH, SP, target, NL, "X" >>)),
                         Raise("RuntimeError"), Raise("KeyError") } :
          session' = Ran(IF outcome.status = "returned"
                         THEN RegenerateHandler(Editor(session, NoEdit), target,
                                                outcome.value.v)
                         ELSE Editor(session, NoEdit),
                         "regenerate", outcome.status = "returned",
                         Str(<< target >>))
  /\ UNCHANGED << pipeline, norm, clean >>

\* a click on Load for one of the saved proposals: the Editor, then the
\* handler
RunLoad ==
  /\ session.runs < MaxRuns
  /\ \E n \in 1..Len(session.store) :
       session' = Ran(LoadHandler(Editor(session, NoEdit), session.store[n]),
                      "load", TRUE, NoneValue)
  /\ UNCHANGED << pipeline, norm, clean >>

\* a click on Quality Check, enabled once there is a document: the handler,
\* then the Editor; an error of qa_chain.run ends the run before either
RunQualityCheck ==
  /\ session.runs < MaxRuns
  /\ session.markdown_full # << >>
  /\ \E outcome \in AuditOutcomes :
       session' = IF outcome.status = "returned"
                  THEN Ran(Editor(QualityHandler(session, outcome.value), NoEdit),
                           "audit", TRUE, outcome.value)
                  ELSE Ran(session, "audit", FALSE, NoneValue)
  /\ UNCHANGED << pipeline, norm, clean >>

\* a second passes
Tick ==
  /\ session.clock < MaxClock
  /\ session' = [session EXCEPT !.clock = @ + 1]
  /\ UNCHANGED << pipeline, norm, clean >>

SessionNext ==
  \/ RunGenerate
  \/ RunEdit
  \/ RunSave
  \/ RunRegenerate
  \/ RunLoad
  \/ RunQualityCheck
  \/ Tick

SpecSession == SessionInit /\ [][SessionNext]_vars

(***************************************************************************)
(* C13  In every state of the session every key of the sections mapping is *)
(* one of the 12 canonical section names.                                  *)
(***************************************************************************)
C13_KeysCanonical == KeySet(session.sections) \subseteq Canonical

\* the pairs of a dict whose keys are canonical names, in canonical order
InCanonicalOrder(sections) ==
  Dict(Filter([n \in 1..Len(sections_order) |->
                 << sections_order[n], Get(sections, sections_order[n]) >>],
              [n \in 1..Len(sections_order) |-> Has(sections, sections_order[n])]))

(***************************************************************************)
(* C14  The full-document markdown of the session is the concatenation of  *)
(* the blocks of the normalized sections in canonical section order,       *)
(* whatever the order of the keys in the sections mapping.                 *)
(***************************************************************************)
C14_MarkdownCanonicalOrder ==
  Len(session.sections.v) > 0 /\ KeySet(session.sections) \subseteq Canonical =>
    \E literal \in BOOLEAN :
       session.markdown_full = Compose(InCanonicalOrder(session.sections), literal)

(***************************************************************************)
(* C11  regenerate_section renders one template, the one registered for    *)
(* the section name or the generic one (placeholder brand_tone) when none  *)
(* is registered, and makes exactly one completion call with it; it        *)
(* returns the text of that call unmodified, and when the call fails       *)
(* RuntimeError reaches the caller: no default body is returned.           *)
(***************************************************************************)
C11_RegenerateOneCall ==
  req.op = "regenerate" /\ Done =>
    LET template == IF req.name \in RegisteredNames
                    THEN section_prompts[req.name] ELSE { "brand_tone" }
        calls == { n \in 1..Len(trace) : trace[n].ev = "complete" }
    IN  IF template \subseteq req.ctx
        THEN /\ Len(trace) = 3
             /\ trace[1] = Ev("render", req.name)
             /\ trace[2] = Ev("complete", req.name)
             /\ calls = { 2 }
             /\ trace[3] = Outcome(req.name, llm.resp)
             /\ llm.resp.state = "returned" => result = Return(Str(llm.resp.text))
             /\ llm.resp.state = "failed" => result = Raise("RuntimeError")
             /\ llm.resp.state \in { "returned", "failed" }
        ELSE calls = { } /\ result = Raise("KeyError")

\* the completion call of a section without registered template failed
C11_Witness ==
  /\ req.op = "regenerate"
  /\ req.name \notin RegisteredNames
  /\ Raises("RuntimeError")
  /\ llm.invocations = DefaultRetries

(***************************************************************************)
(* C12  When the text of the primary completion of generate is one JSON    *)
(* document, bare or fenced, holding a non-empty sections mapping,         *)
(* generate returns the document with exactly the keys and bodies of that  *)
(* mapping, in its order, after the one completion call: no repair call    *)
(* and no section call is made.                                            *)
(***************************************************************************)
C12_DirectSectionsReturned ==
  /\ req.op = "generate"
  /\ Done
  /\ frame.out.state = "returned"
  /\ BareJson(frame.out.text) \/ FencedJson(frame.out.text)
  /\ Len(SectionsOf(DocumentIn(frame.out.text)).v) > 0
  =>
  /\ Returns
  /\ SectionsOf(result.value) = SectionsOf(DocumentIn(frame.out.text))
  /\ trace = << Ev("render", "main"), Ev("complete", "main"),
                Outcome("main", frame.out) >>

\* a document with one canonical section only came back as it was
C12_Witness ==
  /\ req.op = "generate"
  /\ Returns
  /\ frame.out = Returned(<< "partial" >>)
  /\ Keys(SectionsOf(result.value)) = << "Executive Summary" >>

\* the sum of the waits of a call
RECURSIVE SumSeq(_)
SumSeq(q) == IF q = << >> THEN 0 ELSE Head(q) + SumSeq(Tail(q))

(***************************************************************************)
(* C22  After its n-th failed attempt LLMClient.generate waits backoff * n *)
(* and every wait is followed by a retry attempt: a call that is over has  *)
(* made more attempts than waits; a call that failed k times and then      *)
(* succeeded has waited backoff * (1 + ... + k) in total.                  *)
(***************************************************************************)
C22_WaitBeforeRetry ==
  /\ \A n \in 1..Len(llm.sleeps) : llm.sleeps[n] = llm.backoff * n
  /\ Done /\ llm.invocations > 0 => Len(llm.sleeps) < llm.invocations
  /\ Done /\ llm.resp.state = "returned" =>
       2 * SumSeq(llm.sleeps) = llm.backoff * (llm.invocations - 1) * llm.invocations

(***************************************************************************)
(* Properties of the session: saves, composition, failures, history, audit *)
(***************************************************************************)
\* the last run of the script was the click on a button
LastRun(action) == session.last.action = action
\* the body the sections hold under a name, as sections.get(name, "") reads it
BodyOf(sections, name) ==
  IF Has(sections, name) THEN Get(sections, name) ELSE Str(<< >>)

(* C21: every save call creates its own record under an id no other save   *)
(* call has used, so the store holds one record per save call made, also   *)
(* for two saves with the same slug within the same clock second.          *)
C21_OneRecordPerSave == Len(session.store) = session.saves

(* C23: wherever the full document is composed, a block whose normalized   *)
(* body starts with a markdown heading line is kept as it is and any other *)
(* block is prefixed with its title heading: the document held is the      *)
(* composition of the sections held by that one rule.                      *)
C23_OneCompositionRule ==
  Len(session.sections.v) > 0 =>
    session.markdown_full = Compose(session.sections, FALSE)

(* C24: a run whose generate or regenerate call failed leaves the          *)
(* sections, the full document and the history of the session exactly as   *)
(* they were before the run.                                               *)
C24_FailedActionChangesNothing ==
  [][(/\ session'.runs # session.runs
      /\ session'.last.action \in { "generate", "regenerate" }
      /\ ~session'.last.ok)
     => /\ session'.sections = session.sections
        /\ session'.markdown_full = session.markdown_full
        /\ session'.history = session.history]_vars

(* C25: the history is append-only: a successful generate appends exactly  *)
(* one entry, the sections mapping as it was before the generate; a        *)
(* successful regenerate appends exactly one entry, the section name and   *)
(* the body the section had before the regeneration; every other step      *)
(* (edit, audit, save, load, a failed call, a clock tick) leaves the       *)
(* history as it was.                                                      *)
C25_HistoryAppendOnly ==
  [][LET before == session.history
         after == session'.history
         last == session'.last
         ran == session'.runs # session.runs
     IN  IF ran /\ last.action = "generate" /\ last.ok
         THEN after = Append(before, Snapshot(session.sections))
         ELSE IF ran /\ last.action = "regenerate" /\ last.ok
         THEN after = Append(before,
                             Previous(last.value.v[1],
                                      BodyOf(session.sections, last.value.v[1])))
         ELSE after = before]_vars

\* a generate, a regenerate and a second generate have each appended: the
\* empty first mapping, a name with its previous body, the mapping replaced
C25_Witness ==
  /\ LastRun("generate") /\ session.last.ok
  /\ Len(session.history) = 3
  /\ session.history[1] = Snapshot(Dict(<< >>))
  /\ session.history[2].section \in RegenTargets
  /\ session.history[2].previous.v # << >>
  /\ session.history[3].section = ""
  /\ Len(session.history[3].sections.v) = Len(sections_order)

(* C26: after a Quality Check that completed, the audit the session holds  *)
(* is the result of that call, also when an earlier check stored one.      *)
C26_LatestAuditHeld ==
  LastRun("audit") /\ session.last.ok =>
    /\ session.qa.type = session.last.value.type
    /\ session.qa = session.last.value

====
